---- MODULE Spec2Model ----
(***************************************************************************)
(* A model of noxfile-template.py: the module-level code that builds       *)
(* TEST_CONFIG, TESTED_VERSIONS and LINTING_VERSION, the nox sessions      *)
(* lint, blacken, py and readmegen, the helper _session_tests and the      *)
(* repository-root lookup _get_repo_root.                                  *)
(*                                                                         *)
(* Python values are represented as follows.  A dict is a function whose   *)
(* domain is its key set.  A list is a sequence.  A value that may be None *)
(* is a sequence of length at most one (None is << >>).  A str is a TLA+   *)
(* string; where the code compares strs, Chars gives the characters.       *)
(* The text of a requirements file is the set of the package names, among  *)
(* those the code searches for, that occur in it.                          *)
(***************************************************************************)
EXTENDS Integers, Sequences, FiniteSets, TLC

VARIABLES
    pc,                          \* position in the module / session code
    TEST_CONFIG_OVERRIDE,        \* noxfile_config.TEST_CONFIG_OVERRIDE, or {}
    import_ok,                   \* whether noxfile_config was imported
    TEST_CONFIG,                 \* the module-level dict
    TESTED_VERSIONS,             \* module-level list
    INSTALL_LIBRARY_FROM_SOURCE, \* module-level bool
    LINTING_VERSION,             \* module-level str
    environ,                     \* os.environ entries the program has read
    cwd,                         \* depth of os.getcwd() below the filesystem root
    git_dirs,                    \* depths of the ancestors of cwd that hold .git
    repo_root,                   \* outcome of the last _get_repo_root call
    session,                     \* the nox session being run: [name, python]
    post_install,                \* _session_tests' post_install argument
    tests_called,                \* whether _session_tests was entered
    exists,                      \* os.path.exists / glob answers read so far
    packages,                    \* the local `packages` of _session_tests
    concurrent_args,             \* the local `concurrent_args`
    steps,                       \* external commands run so far, with exit codes
    outcome                      \* how the session ended

loadVars == <<TEST_CONFIG_OVERRIDE, import_ok, TEST_CONFIG, TESTED_VERSIONS,
              INSTALL_LIBRARY_FROM_SOURCE, LINTING_VERSION>>
rootVars == <<cwd, git_dirs, repo_root>>
sessVars == <<session, post_install, tests_called, exists, packages,
              concurrent_args, steps, outcome>>
vars == <<pc, loadVars, environ, rootVars, sessVars>>

(***************************************************************************)
(* Python values                                                           *)
(***************************************************************************)
None == << >>
Some(v) == <<v>>
EmptyDict == [k \in {} |-> ""]
Range(s) == {s[i] : i \in DOMAIN s}

\* bool(x) for x a str or None
Truthy(x) == x # None /\ x[1] # ""

\* dict.update: the keys of o are set to o's values, the others are kept
DictUpdateDefaultsWin(d, o) ==
    [k \in (DOMAIN d) \cup (DOMAIN o) |-> IF k \in DOMAIN d THEN d[k] ELSE o[k]]
DictUpdate(d, o) ==
    [k \in (DOMAIN d) \cup (DOMAIN o) |-> IF k \in DOMAIN o THEN o[k] ELSE d[k]]

\* The characters of the version strings that occur in the program.
Chars(s) ==
    CASE s = "2.7"  -> <<"2", ".", "7">>
      [] s = "3.7"  -> <<"3", ".", "7">>
      [] s = "3.8"  -> <<"3", ".", "8">>
      [] s = "3.9"  -> <<"3", ".", "9">>
      [] s = "3.10" -> <<"3", ".", "1", "0">>
      [] s = "3.11" -> <<"3", ".", "1", "1">>
      [] s = "3.12" -> <<"3", ".", "1", "2">>
      [] s = "3.13" -> <<"3", ".", "1", "3">>

\* ord(c)
Ord(c) ==
    CASE c = "." -> 46
      [] c = "0" -> 48 [] c = "1" -> 49 [] c = "2" -> 50 [] c = "3" -> 51
      [] c = "4" -> 52 [] c = "5" -> 53 [] c = "6" -> 54 [] c = "7" -> 55
      [] c = "8" -> 56 [] c = "9" -> 57

\* str.__lt__: lexicographic on code points, a proper prefix is smaller
RECURSIVE CharsLess(_, _)
CharsLess(s, t) ==
    IF t = << >> THEN FALSE
    ELSE IF s = << >> THEN TRUE
    ELSE IF Ord(Head(s)) # Ord(Head(t)) THEN Ord(Head(s)) < Ord(Head(t))
    ELSE CharsLess(Tail(s), Tail(t))

StrLess(a, b) == CharsLess(Chars(a), Chars(b))

\* sorted(list) for a list of strs: stable insertion into ascending str order
RECURSIVE InsertSorted(_, _)
InsertSorted(x, s) ==
    IF s = << >> THEN <<x>>
    ELSE IF StrLess(x, Head(s)) THEN <<x>> \o s
    ELSE <<Head(s)>> \o InsertSorted(x, Tail(s))

RECURSIVE Sorted(_)
Sorted(s) ==
    IF s = << >> THEN << >>
    ELSE InsertSorted(s[Len(s)], Sorted(SubSeq(s, 1, Len(s) - 1)))

(***************************************************************************)
(* Module-level data                                                       *)
(***************************************************************************)
DefaultConfig ==
    [ignored_versions     |-> <<"2.7", "3.7", "3.8", "3.10", "3.11", "3.12">>,
     enforce_type_hints   |-> FALSE,
     gcloud_project_env   |-> "GOOGLE_CLOUD_PROJECT",
     pip_version_override |-> None,
     envs                 |-> EmptyDict]

ALL_VERSIONS == <<"2.7", "3.8", "3.9", "3.10", "3.11", "3.12", "3.13">>

\* [v for v in ALL_VERSIONS if v not in IGNORED_VERSIONS], then sorted
UnfilteredVersions(ignored) == Sorted(ALL_VERSIONS)
TestedVersions(ignored) ==
    LET keep(v) == v \notin Range(ignored)
    IN  Sorted(SelectSeq(ALL_VERSIONS, keep))

\* LINTING_VERSION = "3.10"; if len(TESTED_VERSIONS) > 0: TESTED_VERSIONS[0]
LintingVersion(tested) == IF Len(tested) > 0 THEN tested[1] ELSE "3.10"

\* bool(os.environ.get("INSTALL_LIBRARY_FROM_SOURCE", False))
InstallFromSource(value) == Truthy(value)

(***************************************************************************)
(* The user files noxfile_config.py that are enumerated                    *)
(***************************************************************************)
VersionUniverse == <<"2.7", "3.7", "3.8", "3.9", "3.10", "3.11", "3.12", "3.13">>

ListOf(S) == LET in(v) == v \in S IN SelectSeq(VersionUniverse, in)

IgnoredLists == {ListOf(S) : S \in SUBSET Range(VersionUniverse)}

Optional(key, values) == {EmptyDict} \cup {key :> v : v \in values}

Overrides ==
    {a @@ b @@ c @@ d @@ e @@ f :
        a \in Optional("ignored_versions", IgnoredLists),
        b \in Optional("enforce_type_hints", {TRUE}),
        c \in Optional("gcloud_project_env", {"BUILD_SPECIFIC_GCLOUD_PROJECT"}),
        d \in Optional("pip_version_override", {Some("20.2.4")}),
        e \in Optional("envs", {"MY_ENV" :> "1"}),
        f \in Optional("user_key", {"x"})}

(***************************************************************************)
(* Module load, lines 41-103                                               *)
(***************************************************************************)
NoSession == [name |-> "none", python |-> ""]
NoRoot == [raised |-> FALSE, dir |-> -1]

\* The values the environment may give INSTALL_LIBRARY_FROM_SOURCE
SourceEnvValues == {None, Some(""), Some("1")}

NothingRun ==
    /\ session = NoSession
    /\ post_install = FALSE
    /\ tests_called = FALSE
    /\ exists = EmptyDict
    /\ packages = None
    /\ concurrent_args = << >>
    /\ steps = << >>
    /\ outcome = "none"
    /\ repo_root = NoRoot

\* Lines 41-60 have run: TEST_CONFIG holds the defaults, the rest is unbound.
InitLoad ==
    /\ pc = "import"
    /\ TEST_CONFIG = DefaultConfig
    /\ TEST_CONFIG_OVERRIDE = EmptyDict
    /\ import_ok = FALSE
    /\ TESTED_VERSIONS = << >>
    /\ INSTALL_LIBRARY_FROM_SOURCE = FALSE
    /\ LINTING_VERSION = ""
    /\ environ = EmptyDict
    /\ cwd = 0
    /\ git_dirs = {}
    /\ NothingRun

\* from noxfile_config import TEST_CONFIG_OVERRIDE
ImportConfig ==
    /\ pc = "import"
    /\ \E ov \in Overrides : TEST_CONFIG_OVERRIDE' = ov
    /\ import_ok' = TRUE
    /\ pc' = "update"
    /\ UNCHANGED <<TEST_CONFIG, TESTED_VERSIONS, INSTALL_LIBRARY_FROM_SOURCE,
                   LINTING_VERSION, environ, rootVars, sessVars>>

\* except ImportError: TEST_CONFIG_OVERRIDE = {}
ImportFails ==
    /\ pc = "import"
    /\ TEST_CONFIG_OVERRIDE' = EmptyDict
    /\ import_ok' = FALSE
    /\ pc' = "update"
    /\ UNCHANGED <<TEST_CONFIG, TESTED_VERSIONS, INSTALL_LIBRARY_FROM_SOURCE,
                   LINTING_VERSION, environ, rootVars, sessVars>>

\* TEST_CONFIG.update(TEST_CONFIG_OVERRIDE)
UpdateConfig ==
    /\ pc = "update"
    /\ TEST_CONFIG' = DictUpdate(TEST_CONFIG, TEST_CONFIG_OVERRIDE)
    /\ pc' = "versions"
    /\ UNCHANGED <<TEST_CONFIG_OVERRIDE, import_ok, TESTED_VERSIONS,
                   INSTALL_LIBRARY_FROM_SOURCE, LINTING_VERSION, environ,
                   rootVars, sessVars>>

\* IGNORED_VERSIONS = ...; TESTED_VERSIONS = sorted([...])
ComputeTestedVersions ==
    /\ pc = "versions"
    /\ TESTED_VERSIONS' = TestedVersions(TEST_CONFIG["ignored_versions"])
    /\ pc' = "source_env"
    /\ UNCHANGED <<TEST_CONFIG_OVERRIDE, import_ok, TEST_CONFIG,
                   INSTALL_LIBRARY_FROM_SOURCE, LINTING_VERSION, environ,
                   rootVars, sessVars>>

\* INSTALL_LIBRARY_FROM_SOURCE = bool(os.environ.get(...))
ReadInstallFromSource ==
    /\ pc = "source_env"
    /\ \E value \in SourceEnvValues :
          /\ environ' = ("INSTALL_LIBRARY_FROM_SOURCE" :> value) @@ environ
          /\ INSTALL_LIBRARY_FROM_SOURCE' = InstallFromSource(value)
    /\ pc' = "linting"
    /\ UNCHANGED <<TEST_CONFIG_OVERRIDE, import_ok, TEST_CONFIG, TESTED_VERSIONS,
                   LINTING_VERSION, rootVars, sessVars>>

\* LINTING_VERSION = "3.10"; if len(TESTED_VERSIONS) > 0: ...
ComputeLintingVersion ==
    /\ pc = "linting"
    /\ LINTING_VERSION' = LintingVersion(TESTED_VERSIONS)
    /\ pc' = "loaded"
    /\ UNCHANGED <<TEST_CONFIG_OVERRIDE, import_ok, TEST_CONFIG, TESTED_VERSIONS,
                   INSTALL_LIBRARY_FROM_SOURCE, environ, rootVars, sessVars>>

NextLoad ==
    \/ ImportConfig
    \/ ImportFails
    \/ UpdateConfig
    \/ ComputeTestedVersions
    \/ ReadInstallFromSource
    \/ ComputeLintingVersion

SpecLoad == InitLoad /\ [][NextLoad]_vars

(***************************************************************************)
(* _get_repo_root, lines 280-291                                           *)
(*                                                                         *)
(* A directory on the path from the filesystem root to os.getcwd() is      *)
(* named by its depth: the root is 0 and cwd is the deepest.               *)
(***************************************************************************)
RootSearchLimit == 10

\* Path.parent: the parent of the filesystem root is the root itself, so p
\* is never None and the `if p is None: break` of line 286 never fires.
Parent(p) == IF p = 0 THEN 0 ELSE p - 1

Raised == [raised |-> TRUE, dir |-> -1]
Returned(p) == [raised |-> FALSE, dir |-> p]

\* for i in range(n): if (p / ".git").exists(): return str(p); p = p.parent
\* and after the loop: raise Exception("Unable to detect repository root.")
RECURSIVE Walk(_, _, _, _)
Walk(p, i, n, git) ==
    IF i >= n THEN Raised
    ELSE IF p \in git THEN Returned(p)
    ELSE Walk(Parent(p), i + 1, n, git)

GetRepoRootOneMore(start, git) == Walk(start, 0, RootSearchLimit + 1, git)
GetRepoRoot(start, git) == Walk(start, 0, RootSearchLimit, git)

MaxDepth == 11

Layouts == {[cwd |-> c, git |-> g] : c \in 0..MaxDepth, g \in SUBSET (0..MaxDepth)}

InitRoot ==
    /\ pc = "root_call"
    /\ TEST_CONFIG = DefaultConfig
    /\ TEST_CONFIG_OVERRIDE = EmptyDict
    /\ import_ok = FALSE
    /\ TESTED_VERSIONS = TestedVersions(DefaultConfig["ignored_versions"])
    /\ INSTALL_LIBRARY_FROM_SOURCE = FALSE
    /\ LINTING_VERSION = LintingVersion(TESTED_VERSIONS)
    /\ environ = EmptyDict
    /\ cwd = 0
    /\ git_dirs = {}
    /\ NothingRun

\* A call of _get_repo_root() in some working directory
CallGetRepoRoot ==
    /\ pc = "root_call"
    /\ \E l \in Layouts :
          /\ l.git \subseteq 0..l.cwd
          /\ cwd' = l.cwd
          /\ git_dirs' = l.git
          /\ repo_root' = GetRepoRoot(l.cwd, l.git)
    /\ pc' = "root_done"
    /\ UNCHANGED <<loadVars, environ, session, post_install, tests_called, exists,
                   packages, concurrent_args, steps, outcome>>

NextRoot == CallGetRepoRoot

SpecRoot == InitRoot /\ [][NextRoot]_vars

\* The ancestor levels of cwd (0 is cwd itself) whose directory holds .git
GitLevels == {cwd - g : g \in git_dirs}
Nearest(levels) == CHOOSE l \in levels : \A m \in levels : l <= m

MaxExitCode == 5
ExitCodes == 0..MaxExitCode

\* success_codes of a session.install / session.run call that passes none
DefaultSuccessCodes == {0}
\* success_codes=[0, 5] of the pytest call
OnlyZero == {0}
PytestSuccessCodes == {0, 5}

PYTEST_COMMON_ARGS == <<"--junitxml=sponge_log.xml">>

\* The texts of requirements.txt and requirements-test.txt that are enumerated
RequirementsTexts == {{}, {"pyspark"}, {"pytest-xdist"}}
TestRequirementsTexts == {{}, {"pytest-parallel"}, {"pytest-xdist"}}

\* The values the environment may give the project variable
ProjectEnvValues == {None, Some("my-project")}

\* The working directories in which a session looks for the repository root
SessionLayouts ==
    {[cwd |-> 2, git |-> {}], [cwd |-> 2, git |-> {0}], [cwd |-> 2, git |-> {0, 2}]}

\* The user files noxfile_config.py under which sessions are run
SessionOverrides ==
    {a @@ b @@ c @@ d :
        a \in Optional("ignored_versions",
                       {<< >>, <<"3.9", "3.12">>, ListOf(Range(ALL_VERSIONS))}),
        b \in Optional("enforce_type_hints", {TRUE}),
        c \in Optional("gcloud_project_env", {"BUILD_SPECIFIC_GCLOUD_PROJECT"}),
        d \in Optional("pip_version_override", {Some("20.2.4"), Some("")})}

\* The state in which lines 41-103 leave the module
Loaded(ov, ok, source) ==
    /\ TEST_CONFIG_OVERRIDE = ov
    /\ import_ok = ok
    /\ TEST_CONFIG = DictUpdate(DefaultConfig, ov)
    /\ TESTED_VERSIONS = TestedVersions(TEST_CONFIG["ignored_versions"])
    /\ environ = ("INSTALL_LIBRARY_FROM_SOURCE" :> source)
    /\ INSTALL_LIBRARY_FROM_SOURCE = InstallFromSource(source)
    /\ LINTING_VERSION = LintingVersion(TESTED_VERSIONS)

Init ==
    /\ pc = "loaded"
    /\ \E source \in {None, Some("1")} :
          \/ \E ov \in SessionOverrides : Loaded(ov, TRUE, source)
          \/ Loaded(EmptyDict, FALSE, source)
    /\ cwd = 0
    /\ git_dirs = {}
    /\ NothingRun

\* One external command: what ran and the exit code of the process
Command(step, tool, args, code) ==
    [step |-> step, tool |-> tool, args |-> args, code |-> code]

Failed(o) == o \notin {"none", "success", "skipped"}
Invoked(step) == \E i \in DOMAIN steps : steps[i].step = step

\* get_pytest_env_vars, lines 75-87: os.environ[env_key] raises KeyError
\* when the variable is not set; value is what the environment holds for it
GetPytestEnvVarsLenient(value) ==
    [raised |-> FALSE,
     env    |-> IF value = None THEN TEST_CONFIG["envs"]
                ELSE DictUpdate(("GOOGLE_CLOUD_PROJECT" :> value[1]) @@
                                ("GCLOUD_PROJECT" :> value[1]), TEST_CONFIG["envs"])]
GetPytestEnvVars(value) ==
    IF value = None
    THEN [raised |-> TRUE, env |-> EmptyDict]
    ELSE [raised |-> FALSE,
          env    |-> DictUpdate(("GOOGLE_CLOUD_PROJECT" :> value[1]) @@
                                ("GCLOUD_PROJECT" :> value[1]), TEST_CONFIG["envs"])]

\* @nox.session(python=ALL_VERSIONS) def py, lines 264-272
StartPy ==
    /\ pc = "loaded"
    /\ \E v \in Range(ALL_VERSIONS) :
          /\ session' = [name |-> "py", python |-> v]
          /\ IF v \in Range(TESTED_VERSIONS)
             THEN /\ tests_called' = TRUE
                  /\ pc' = "glob"
                  /\ UNCHANGED outcome
             ELSE /\ outcome' = "skipped"
                  /\ pc' = "done"
                  /\ UNCHANGED tests_called
    /\ UNCHANGED <<loadVars, environ, rootVars, post_install, exists, packages,
                   concurrent_args, steps>>

\* A session of a noxfile that calls _session_tests(session, post_install=hook)
StartTestsWithHook ==
    /\ pc = "loaded"
    /\ session' = [name |-> "tests_with_hook", python |-> "default"]
    /\ post_install' = TRUE
    /\ tests_called' = TRUE
    /\ pc' = "glob"
    /\ UNCHANGED <<loadVars, environ, rootVars, exists, packages, concurrent_args,
                   steps, outcome>>

\* lines 195-200: test_list; return when it is empty
FindTestsAlwaysProceeds ==
    /\ pc = "glob"
    /\ \E found \in BOOLEAN : exists' = ("tests" :> found) @@ exists
    /\ pc' = "pip"
    /\ UNCHANGED <<loadVars, environ, rootVars, session, post_install, tests_called,
                   packages, concurrent_args, steps, outcome>>
FindTests ==
    /\ pc = "glob"
    /\ \E found \in BOOLEAN :
          /\ exists' = ("tests" :> found) @@ exists
          /\ IF found
             THEN pc' = "pip" /\ UNCHANGED outcome
             ELSE pc' = "done" /\ outcome' = "success"
    /\ UNCHANGED <<loadVars, environ, rootVars, session, post_install, tests_called,
                   packages, concurrent_args, steps>>

\* session.install(*args): the command is logged; a failure ends the session
Install(step, args, code, next) ==
    /\ steps' = Append(steps, Command(step, "install", args, code))
    /\ IF code \in DefaultSuccessCodes
       THEN pc' = next /\ UNCHANGED outcome
       ELSE pc' = "done" /\ outcome' = "CommandFailed"

\* lines 202-206
InstallPip ==
    /\ pc = "pip"
    /\ \E code \in ExitCodes :
          Install("pip",
                  IF Truthy(TEST_CONFIG["pip_version_override"])
                  THEN <<"pip==", TEST_CONFIG["pip_version_override"][1]>>
                  ELSE <<"--upgrade", "pip">>,
                  code, "requirements")
    /\ UNCHANGED <<loadVars, environ, rootVars, session, post_install, tests_called,
                   exists, packages, concurrent_args>>

\* lines 210-225
InstallRequirements ==
    /\ pc = "requirements"
    /\ \/ /\ exists' = ("requirements.txt" :> FALSE) @@ exists
          /\ pc' = "requirements_test"
          /\ UNCHANGED <<packages, steps, outcome>>
       \/ \E text \in RequirementsTexts, constraints \in BOOLEAN, code \in ExitCodes :
             /\ exists' = ("requirements.txt" :> TRUE) @@
                          ("constraints.txt" :> constraints) @@ exists
             /\ packages' = Some(text)
             /\ Install("requirements",
                        IF constraints
                        THEN <<"-r", "requirements.txt", "-c", "constraints.txt",
                               "--only-binary", ":all">>
                        ELSE IF "pyspark" \in text
                        THEN <<"-r", "requirements.txt", "--use-pep517">>
                        ELSE <<"-r", "requirements.txt", "--only-binary", ":all">>,
                        code, "requirements_test")
    /\ UNCHANGED <<loadVars, environ, rootVars, session, post_install, tests_called,
                   concurrent_args>>

\* lines 227-240: `packages += rtfile.read()` reads the local `packages`,
\* which is bound only when requirements.txt existed
InstallTestRequirements ==
    /\ pc = "requirements_test"
    /\ \/ /\ exists' = ("requirements-test.txt" :> FALSE) @@ exists
          /\ pc' = "editable"
          /\ UNCHANGED <<packages, steps, outcome>>
       \/ /\ packages = None
          /\ exists' = ("requirements-test.txt" :> TRUE) @@ exists
          /\ pc' = "done"
          /\ outcome' = "UnboundLocalError"
          /\ UNCHANGED <<packages, steps>>
       \/ /\ packages # None
          /\ \E text \in TestRequirementsTexts, constraints \in BOOLEAN,
                code \in ExitCodes :
                /\ exists' = ("requirements-test.txt" :> TRUE) @@
                             ("constraints-test.txt" :> constraints) @@ exists
                /\ packages' = Some(packages[1] \cup text)
                /\ Install("requirements_test",
                           IF constraints
                           THEN <<"-r", "requirements-test.txt", "-c",
                                  "constraints-test.txt", "--only-binary", ":all">>
                           ELSE <<"-r", "requirements-test.txt", "--only-binary",
                                  ":all">>,
                           code, "editable")
    /\ UNCHANGED <<loadVars, environ, rootVars, session, post_install, tests_called,
                   concurrent_args>>

\* lines 242-243: session.install("-e", _get_repo_root())
InstallLibraryNever ==
    /\ pc = "editable"
    /\ pc' = "post_install"
    /\ UNCHANGED <<loadVars, environ, rootVars, sessVars>>
InstallLibrary ==
    /\ pc = "editable"
    /\ IF ~INSTALL_LIBRARY_FROM_SOURCE
       THEN /\ pc' = "post_install"
            /\ UNCHANGED <<rootVars, steps, outcome>>
       ELSE \E l \in SessionLayouts :
               /\ cwd' = l.cwd
               /\ git_dirs' = l.git
               /\ repo_root' = GetRepoRoot(l.cwd, l.git)
               /\ IF repo_root'.raised
                  THEN /\ pc' = "done"
                       /\ outcome' = "Exception"
                       /\ UNCHANGED steps
                  ELSE \E code \in ExitCodes :
                          Install("editable", <<"-e", "<repo root>">>, code,
                                  "post_install")
    /\ UNCHANGED <<loadVars, environ, session, post_install, tests_called, exists,
                   packages, concurrent_args>>

\* lines 245-246: the hook is the caller's code; it returns or raises
RunPostInstall ==
    /\ pc = "post_install"
    /\ IF ~post_install
       THEN /\ pc' = "concurrency"
            /\ UNCHANGED <<steps, outcome>>
       ELSE \E returns \in BOOLEAN :
               /\ steps' = Append(steps, Command("post_install", "hook", << >>,
                                                 IF returns THEN 0 ELSE 1))
               /\ IF returns
                  THEN pc' = "concurrency" /\ UNCHANGED outcome
                  ELSE pc' = "done" /\ outcome' = "HookError"
    /\ UNCHANGED <<loadVars, environ, rootVars, session, post_install, tests_called,
                   exists, packages, concurrent_args>>

\* lines 248-251: `"pytest-parallel" in packages` reads the local `packages`
ComputeConcurrentArgs ==
    /\ pc = "concurrency"
    /\ IF packages = None
       THEN /\ pc' = "done"
            /\ outcome' = "UnboundLocalError"
            /\ UNCHANGED concurrent_args
       ELSE /\ concurrent_args' =
                  IF "pytest-parallel" \in packages[1]
                  THEN <<"--workers", "auto", "--tests-per-worker", "auto">>
                  ELSE IF "pytest-xdist" \in packages[1]
                  THEN <<"-n", "auto">>
                  ELSE << >>
            /\ pc' = "pytest"
            /\ UNCHANGED outcome
    /\ UNCHANGED <<loadVars, environ, rootVars, session, post_install, tests_called,
                   exists, packages, steps>>

\* lines 253-261: the arguments, get_pytest_env_vars() among them, are
\* evaluated before session.run is called
RunPytest ==
    /\ pc = "pytest"
    /\ \E value \in ProjectEnvValues :
          /\ environ' = (TEST_CONFIG["gcloud_project_env"] :> value) @@ environ
          /\ IF GetPytestEnvVars(value).raised
             THEN /\ outcome' = "KeyError"
                  /\ UNCHANGED steps
             ELSE \E code \in ExitCodes :
                     /\ steps' = Append(steps,
                                   [step |-> "pytest", tool |-> "run",
                                    args |-> <<"pytest">> \o PYTEST_COMMON_ARGS
                                                \o concurrent_args,
                                    code |-> code,
                                    env  |-> GetPytestEnvVars(value).env])
                     /\ outcome' = IF code \in PytestSuccessCodes
                                   THEN "success" ELSE "CommandFailed"
    /\ pc' = "done"
    /\ UNCHANGED <<loadVars, rootVars, session, post_install, tests_called, exists,
                   packages, concurrent_args>>

\* session.run(*args) of a session's last command
RunLast(step, args, code) ==
    /\ steps' = Append(steps, Command(step, "run", args, code))
    /\ pc' = "done"
    /\ outcome' = IF code \in DefaultSuccessCodes THEN "success" ELSE "CommandFailed"

\* @nox.session(python=LINTING_VERSION) def lint, lines 154-159
LintInstall ==
    /\ pc = "loaded"
    /\ session' = [name |-> "lint", python |-> LINTING_VERSION]
    /\ \E code \in ExitCodes :
          Install("flake8_install",
                  IF ~TEST_CONFIG["enforce_type_hints"]
                  THEN <<"flake8", "flake8-import-order">>
                  ELSE <<"flake8", "flake8-import-order", "flake8-annotations">>,
                  code, "lint_run")
    /\ UNCHANGED <<loadVars, environ, rootVars, post_install, tests_called, exists,
                   packages, concurrent_args>>

\* lines 161-167
LintRun ==
    /\ pc = "lint_run"
    /\ \E code \in ExitCodes : RunLast("flake8", <<"flake8">>, code)
    /\ UNCHANGED <<loadVars, environ, rootVars, session, post_install, tests_called,
                   exists, packages, concurrent_args>>

\* @nox.session(python=LINTING_VERSION) def blacken, line 177
BlackenInstall ==
    /\ pc = "loaded"
    /\ session' = [name |-> "blacken", python |-> LINTING_VERSION]
    /\ \E code \in ExitCodes : Install("black_install", <<"black">>, code, "black_run")
    /\ UNCHANGED <<loadVars, environ, rootVars, post_install, tests_called, exists,
                   packages, concurrent_args>>

\* lines 178-180
BlackenRun ==
    /\ pc = "black_run"
    /\ \E code \in ExitCodes : RunLast("black", <<"black">>, code)
    /\ UNCHANGED <<loadVars, environ, rootVars, session, post_install, tests_called,
                   exists, packages, concurrent_args>>

\* def readmegen, line 301, for one of GENERATED_READMES
ReadmegenInstall ==
    /\ pc = "loaded"
    /\ session' = [name |-> "readmegen", python |-> "default"]
    /\ \E code \in ExitCodes :
          Install("readme_install", <<"jinja2", "pyyaml">>, code, "readme_requirements")
    /\ UNCHANGED <<loadVars, environ, rootVars, post_install, tests_called, exists,
                   packages, concurrent_args>>

\* lines 304-305
ReadmegenRequirements ==
    /\ pc = "readme_requirements"
    /\ \/ /\ exists' = ("requirements.txt" :> FALSE) @@ exists
          /\ pc' = "readme_run"
          /\ UNCHANGED <<steps, outcome>>
       \/ /\ exists' = ("requirements.txt" :> TRUE) @@ exists
          /\ \E code \in ExitCodes :
                Install("readme_requirements", <<"-r", "requirements.txt">>, code,
                        "readme_run")
    /\ UNCHANGED <<loadVars, environ, rootVars, session, post_install, tests_called,
                   packages, concurrent_args>>

\* lines 307-310: _get_repo_root() is evaluated before session.run is called
ReadmegenRun ==
    /\ pc = "readme_run"
    /\ \E l \in SessionLayouts :
          /\ cwd' = l.cwd
          /\ git_dirs' = l.git
          /\ repo_root' = GetRepoRoot(l.cwd, l.git)
          /\ IF repo_root'.raised
             THEN /\ pc' = "done"
                  /\ outcome' = "Exception"
                  /\ UNCHANGED steps
             ELSE \E code \in ExitCodes :
                     RunLast("readme_gen",
                             <<"python", "<repo root>/scripts/readme-gen/readme_gen.py",
                               "README.rst.in">>, code)
    /\ UNCHANGED <<loadVars, environ, session, post_install, tests_called, exists,
                   packages, concurrent_args>>

Next ==
    \/ StartPy
    \/ StartTestsWithHook
    \/ FindTests
    \/ InstallPip
    \/ InstallRequirements
    \/ InstallTestRequirements
    \/ InstallLibrary
    \/ RunPostInstall
    \/ ComputeConcurrentArgs
    \/ RunPytest
    \/ LintInstall
    \/ LintRun
    \/ BlackenInstall
    \/ BlackenRun
    \/ ReadmegenInstall
    \/ ReadmegenRequirements
    \/ ReadmegenRun

Spec == Init /\ [][Next]_vars

(***************************************************************************)
(* Versions as numbers, for stating the claims about version order         *)
(***************************************************************************)
RECURSIVE ParseInt(_, _)
ParseInt(cs, acc) ==
    IF cs = << >> THEN acc
    ELSE ParseInt(Tail(cs), 10 * acc + (Ord(Head(cs)) - 48))

DotIndex(cs) == CHOOSE i \in 1..Len(cs) : cs[i] = "."

VersionKey(s) ==
    LET cs == Chars(s)
        d  == DotIndex(cs)
    IN  <<ParseInt(SubSeq(cs, 1, d - 1), 0), ParseInt(SubSeq(cs, d + 1, Len(cs)), 0)>>

VersionOlder(a, b) ==
    \/ VersionKey(a)[1] < VersionKey(b)[1]
    \/ VersionKey(a)[1] = VersionKey(b)[1] /\ VersionKey(a)[2] < VersionKey(b)[2]

ConfigMerged == pc \notin {"import", "update"}
VersionsComputed == pc \notin {"import", "update", "versions"}
LintingComputed == pc \notin {"import", "update", "versions", "source_env", "linting"}

(***************************************************************************)
(* Claims about module load                                                *)
(***************************************************************************)
\* C1: once TEST_CONFIG.update has run, TEST_CONFIG has the override's value
\* at every key of TEST_CONFIG_OVERRIDE and the default value at every other
\* key; when the import failed the override is empty and TEST_CONFIG equals
\* the defaults.
C1_ConfigIsDefaultsWithOverride ==
    ConfigMerged =>
        /\ DOMAIN TEST_CONFIG = (DOMAIN DefaultConfig) \cup (DOMAIN TEST_CONFIG_OVERRIDE)
        /\ \A k \in DOMAIN TEST_CONFIG_OVERRIDE : TEST_CONFIG[k] = TEST_CONFIG_OVERRIDE[k]
        /\ \A k \in (DOMAIN DefaultConfig) \ (DOMAIN TEST_CONFIG_OVERRIDE) :
              TEST_CONFIG[k] = DefaultConfig[k]
        /\ ~import_ok => (DOMAIN TEST_CONFIG_OVERRIDE = {} /\ TEST_CONFIG = DefaultConfig)

C1_Witness ==
    /\ ConfigMerged
    /\ import_ok
    /\ DOMAIN TEST_CONFIG_OVERRIDE = {"pip_version_override", "gcloud_project_env"}
    /\ TEST_CONFIG["pip_version_override"] = Some("20.2.4")
    /\ TEST_CONFIG["ignored_versions"] = DefaultConfig["ignored_versions"]

\* C2: TESTED_VERSIONS holds exactly the elements of ALL_VERSIONS that are not
\* in ignored_versions, older versions before newer ones, and is non-empty
\* with the default ignored_versions.
C2_TestedVersionsAscendingByVersion ==
    VersionsComputed =>
        /\ Range(TESTED_VERSIONS) =
              Range(ALL_VERSIONS) \ Range(TEST_CONFIG["ignored_versions"])
        /\ \A i, j \in DOMAIN TESTED_VERSIONS :
              i < j => VersionOlder(TESTED_VERSIONS[i], TESTED_VERSIONS[j])
        /\ TEST_CONFIG["ignored_versions"] = DefaultConfig["ignored_versions"]
              => TESTED_VERSIONS # << >>

\* C9: LINTING_VERSION is the oldest version of TESTED_VERSIONS when that list
\* is non-empty, and "3.10" when it is empty.
C9_LintingVersionIsOldest ==
    LintingComputed =>
        IF TESTED_VERSIONS # << >>
        THEN /\ LINTING_VERSION \in Range(TESTED_VERSIONS)
             /\ \A v \in Range(TESTED_VERSIONS) : ~VersionOlder(v, LINTING_VERSION)
        ELSE LINTING_VERSION = "3.10"

(***************************************************************************)
(* Claims about the sessions                                               *)
(***************************************************************************)
TestsFound == "tests" \in DOMAIN exists /\ exists["tests"]
TestsNotFound == "tests" \in DOMAIN exists /\ ~exists["tests"]
Present(file) == file \in DOMAIN exists /\ exists[file]
ProjectEnvRead == TEST_CONFIG["gcloud_project_env"] \in DOMAIN environ
ProjectEnvUnset ==
    ProjectEnvRead /\ environ[TEST_CONFIG["gcloud_project_env"]] = None

\* C3: when no test file is found, _session_tests returns without error and
\* without any session.install or session.run step.
C3_NoTestsNoSteps ==
    (tests_called /\ TestsNotFound) =>
        /\ pc = "done"
        /\ outcome = "success"
        /\ steps = << >>

C3_Witness ==
    /\ tests_called
    /\ TestsNotFound
    /\ pc = "done"
    /\ Truthy(TEST_CONFIG["pip_version_override"])
    /\ INSTALL_LIBRARY_FROM_SOURCE

\* C4: when test files exist and the project variable is set, every
\* combination of presence and absence of the four dependency files lets
\* _session_tests reach the pytest invocation without raising: a run that ends
\* with no failed command, no missing project variable, no failed root lookup
\* and no failed hook has invoked pytest.
C4_DependencyFilesOptional ==
    (tests_called /\ TestsFound /\ pc = "done"
        /\ outcome \notin {"CommandFailed", "KeyError", "Exception", "HookError"})
    => Invoked("pytest")

\* C5: a run in which pytest was started succeeds exactly when pytest exits
\* with 0 or 5, and any other command that exits with a non-zero code fails
\* the session.
C5_ExitCodes ==
    pc = "done" =>
        \A i \in DOMAIN steps :
            IF steps[i].step = "pytest"
            THEN /\ steps[i].code \in {0, 5} => outcome = "success"
                 /\ steps[i].code \notin {0, 5} => outcome = "CommandFailed"
            ELSE steps[i].code # 0 => Failed(outcome)

C5_Witness ==
    /\ pc = "done"
    /\ outcome = "success"
    /\ \E i \in DOMAIN steps : steps[i].step = "pytest" /\ steps[i].code = 5

\* C7 as stated: when the project variable is not set the error is raised
\* before any session.install step and before pytest.
C7_KeyErrorBeforeAnyStep ==
    outcome = "KeyError" => steps = << >>

\* C7 amended: when the project variable turns out not to be set, the run ends
\* with KeyError without pytest being invoked, and pytest is only ever invoked
\* with the variable set; the error comes at the pytest call, after the pip
\* install (and every other install step of the run) has completed.
C7_KeyErrorAtPytestCall ==
    /\ ProjectEnvUnset => (pc = "done" /\ outcome = "KeyError")
    /\ Invoked("pytest") => (ProjectEnvRead /\ ~ProjectEnvUnset)
    /\ outcome = "KeyError" =>
          /\ ProjectEnvUnset
          /\ ~Invoked("pytest")
          /\ steps # << >>
          /\ steps[1].step = "pip"
          /\ \A i \in DOMAIN steps : steps[i].code = 0

C7_Witness ==
    /\ outcome = "KeyError"
    /\ Invoked("requirements")
    /\ Invoked("requirements_test")
    /\ TEST_CONFIG["gcloud_project_env"] = "BUILD_SPECIFIC_GCLOUD_PROJECT"

\* C8: the py session of a version enters _session_tests exactly when the
\* version is not in ignored_versions; for an ignored version the session is
\* skipped and runs no command.
C8_PyRunsUnlessIgnored ==
    session.name = "py" =>
        /\ session.python \in Range(ALL_VERSIONS)
        /\ tests_called <=> session.python \notin Range(TEST_CONFIG["ignored_versions"])
        /\ session.python \in Range(TEST_CONFIG["ignored_versions"]) =>
              (pc = "done" /\ outcome = "skipped" /\ steps = << >>)

C8_Witness ==
    /\ session = [name |-> "py", python |-> "3.12"]
    /\ TEST_CONFIG["ignored_versions"] = <<"3.9", "3.12">>
    /\ outcome = "skipped"

\* C10: the commands of _session_tests run in the order pip, requirements.txt,
\* requirements-test.txt, editable install, post_install hook, pytest, each at
\* most once and each after the one before it has completed; pip is pinned
\* exactly when pip_version_override is set; the editable install and the hook
\* run only when they apply; and when pytest is invoked every step that
\* applies has run.
StepRank(step) ==
    CASE step = "pip"               -> 1
      [] step = "requirements"      -> 2
      [] step = "requirements_test" -> 3
      [] step = "editable"          -> 4
      [] step = "post_install"      -> 5
      [] step = "pytest"            -> 6

C10_StepOrder ==
    tests_called =>
        /\ \A i, j \in DOMAIN steps :
              i < j => (StepRank(steps[i].step) < StepRank(steps[j].step)
                           /\ steps[i].code = 0)
        /\ steps # << >> =>
              /\ steps[1].step = "pip"
              /\ steps[1].args =
                    IF TEST_CONFIG["pip_version_override"] \in {None, Some("")}
                    THEN <<"--upgrade", "pip">>
                    ELSE <<"pip==", TEST_CONFIG["pip_version_override"][1]>>
        /\ Invoked("requirements") => Present("requirements.txt")
        /\ Invoked("requirements_test") => Present("requirements-test.txt")
        /\ Invoked("editable") => INSTALL_LIBRARY_FROM_SOURCE
        /\ Invoked("post_install") => post_install
        /\ Invoked("pytest") =>
              /\ steps[Len(steps)].step = "pytest"
              /\ {"requirements.txt", "requirements-test.txt"} \subseteq DOMAIN exists
              /\ Present("requirements.txt") => Invoked("requirements")
              /\ Present("requirements-test.txt") => Invoked("requirements_test")
              /\ INSTALL_LIBRARY_FROM_SOURCE => Invoked("editable")
              /\ post_install => Invoked("post_install")

C10_Witness ==
    /\ tests_called
    /\ Len(steps) = 6
    /\ steps[2].step = "requirements"
    /\ steps[3].step = "requirements_test"
    /\ steps[4].step = "editable"
    /\ steps[5].step = "post_install"
    /\ steps[6].step = "pytest"

====
